---- MODULE Spec2Model ----
(***************************************************************************)
(* Model of the ICS07 Tendermint light-client state record                 *)
(* (light-clients/ics07-tendermint/src/client_state.rs): construction,     *)
(* header update, freezing, upgrade, and the height / delay guards.        *)
(***************************************************************************)
EXTENDS Integers, Sequences, FiniteSets, TLC

VARIABLES cs, op, arg, res

vars == <<cs, op, arg, res>>

(* ------------------------------ bounds --------------------------------- *)

MaxRev == 1
MaxHeight == 1
MaxDur == 2
MaxDrift == 1
MaxTime == 3
MaxDelayTime == 2
MaxDelayBlocks == 2
MaxSeq == 2
\* Duration::MAX, the largest representable Duration, in the model's units
DurationMAX == 4

(* --------------------------- value domains ----------------------------- *)

\* ibc::Height: (revision number, revision height)
Heights == [revision_number : 0..MaxRev, revision_height : 0..MaxHeight]

Height(rn, rh) == [revision_number |-> rn, revision_height |-> rh]

HeightZero == Height(0, 0)

\* Ord for Height: lexicographic, revision number first
HeightLT(a, b) ==
    \/ a.revision_number < b.revision_number
    \/ /\ a.revision_number = b.revision_number
       /\ a.revision_height < b.revision_height

HeightLE(a, b) == a = b \/ HeightLT(a, b)

\* Height::with_revision_height: same revision number, new revision height
with_revision_height(h, rh) == Height(h.revision_number, rh)

\* Height::add: the delta is added to the revision height
HeightAdd(h, delta) == Height(h.revision_number, h.revision_height + delta)

\* TrustThreshold as a fraction; TrustThreshold::ZERO is 0/0
TrustThresholdZERO == [numerator |-> 0, denominator |-> 0]

TrustLevels ==
    {TrustThresholdZERO,
     [numerator |-> 1, denominator |-> 3],
     [numerator |-> 2, denominator |-> 3]}

\* core::time::Duration, counted in whole units; ZERO_DURATION is 0
ZERO_DURATION == 0

Durations == 0..MaxDur

ChainIds == {"chain-0", "chain-1"}

\* ProofSpecs as a sequence of spec names; the empty one is rejected by new
ProofSpecsSet == {<<>>, <<"iavl", "tendermint">>}

UpgradePaths == {<<"upgrade", "upgradedIBCState">>}

\* Option<Height>
None == [some |-> FALSE]

Some(v) == [some |-> TRUE, val |-> v]

\* Result<T, Error>
Ok(v) == [ok |-> TRUE, val |-> v]

Err(kind, detail) == [ok |-> FALSE, err |-> [kind |-> kind, detail |-> detail]]

\* what an operation left in res when it returned Ok
OkRes == [kind |-> "Ok", detail |-> ""]

Outcome(r) == IF r.ok THEN OkRes ELSE r.err

\* no client state has been constructed yet
NoClient == [constructed |-> FALSE]

NoArg == [none |-> TRUE]

Live == cs # NoClient

\* tendermint Header as far as the client state reads it: block height, and
\* the revision encoded in its chain id
Headers == [height : 0..MaxHeight, revision : 0..MaxRev]

(* --------------------------- ClientState::new -------------------------- *)

\* new with the period comparison off by one (> for >=)
new_period_off_by_one(chain_id, trust_level, trusting_period, unbonding_period, max_clock_drift, latest_height, proof_specs, upgrade_path) ==
    IF trusting_period <= 0
    THEN Err("InvalidTrustingPeriod", "must be greater than zero")
    ELSE IF unbonding_period <= 0
    THEN Err("InvalidUnbondingPeriod", "must be greater than zero")
    ELSE IF trusting_period > unbonding_period
    THEN Err("InvalidTrustingPeriod", "must be smaller than unbonding period")
    ELSE IF HeightLE(latest_height, HeightZero)
    THEN Err("Validation", "latest height must be greater than zero")
    ELSE IF trust_level = TrustThresholdZERO
    THEN Err("Validation", "trust-level cannot be zero")
    ELSE IF Len(proof_specs) = 0
    THEN Err("Validation", "proof-specs cannot be empty")
    ELSE Ok([chain_id |-> chain_id,
             trust_level |-> trust_level,
             trusting_period |-> trusting_period,
             unbonding_period |-> unbonding_period,
             max_clock_drift |-> max_clock_drift,
             latest_height |-> latest_height,
             proof_specs |-> proof_specs,
             upgrade_path |-> upgrade_path,
             frozen_height |-> None])

\* new without the trust-level check
new_no_trust_level_check(chain_id, trust_level, trusting_period, unbonding_period, max_clock_drift, latest_height, proof_specs, upgrade_path) ==
    IF trusting_period <= 0
    THEN Err("InvalidTrustingPeriod", "must be greater than zero")
    ELSE IF unbonding_period <= 0
    THEN Err("InvalidUnbondingPeriod", "must be greater than zero")
    ELSE IF trusting_period >= unbonding_period
    THEN Err("InvalidTrustingPeriod", "must be smaller than unbonding period")
    ELSE IF HeightLE(latest_height, HeightZero)
    THEN Err("Validation", "latest height must be greater than zero")
    ELSE IF Len(proof_specs) = 0
    THEN Err("Validation", "proof-specs cannot be empty")
    ELSE Ok([chain_id |-> chain_id,
             trust_level |-> trust_level,
             trusting_period |-> trusting_period,
             unbonding_period |-> unbonding_period,
             max_clock_drift |-> max_clock_drift,
             latest_height |-> latest_height,
             proof_specs |-> proof_specs,
             upgrade_path |-> upgrade_path,
             frozen_height |-> None])

\* new reporting a non-positive unbonding period as a trusting-period error
new_unbonding_as_trusting(chain_id, trust_level, trusting_period, unbonding_period, max_clock_drift, latest_height, proof_specs, upgrade_path) ==
    IF trusting_period <= 0
    THEN Err("InvalidTrustingPeriod", "must be greater than zero")
    ELSE IF unbonding_period <= 0
    THEN Err("InvalidTrustingPeriod", "must be smaller than unbonding period")
    ELSE IF trusting_period >= unbonding_period
    THEN Err("InvalidTrustingPeriod", "must be smaller than unbonding period")
    ELSE IF HeightLE(latest_height, HeightZero)
    THEN Err("Validation", "latest height must be greater than zero")
    ELSE IF trust_level = TrustThresholdZERO
    THEN Err("Validation", "trust-level cannot be zero")
    ELSE IF Len(proof_specs) = 0
    THEN Err("Validation", "proof-specs cannot be empty")
    ELSE Ok([chain_id |-> chain_id,
             trust_level |-> trust_level,
             trusting_period |-> trusting_period,
             unbonding_period |-> unbonding_period,
             max_clock_drift |-> max_clock_drift,
             latest_height |-> latest_height,
             proof_specs |-> proof_specs,
             upgrade_path |-> upgrade_path,
             frozen_height |-> None])

new(chain_id, trust_level, trusting_period, unbonding_period, max_clock_drift, latest_height, proof_specs, upgrade_path) ==
    IF trusting_period <= 0
    THEN Err("InvalidTrustingPeriod", "must be greater than zero")
    ELSE IF unbonding_period <= 0
    THEN Err("InvalidUnbondingPeriod", "must be greater than zero")
    ELSE IF trusting_period >= unbonding_period
    THEN Err("InvalidTrustingPeriod", "must be smaller than unbonding period")
    ELSE IF HeightLE(latest_height, HeightZero)
    THEN Err("Validation", "latest height must be greater than zero")
    ELSE IF trust_level = TrustThresholdZERO
    THEN Err("Validation", "trust-level cannot be zero")
    ELSE IF Len(proof_specs) = 0
    THEN Err("Validation", "proof-specs cannot be empty")
    ELSE Ok([chain_id |-> chain_id,
             trust_level |-> trust_level,
             trusting_period |-> trusting_period,
             unbonding_period |-> unbonding_period,
             max_clock_drift |-> max_clock_drift,
             latest_height |-> latest_height,
             proof_specs |-> proof_specs,
             upgrade_path |-> upgrade_path,
             frozen_height |-> None])

NewArgs ==
    [chain_id : ChainIds, trust_level : TrustLevels,
     trusting_period : Durations, unbonding_period : Durations,
     max_clock_drift : 0..MaxDrift, latest_height : Heights,
     proof_specs : ProofSpecsSet, upgrade_path : UpgradePaths]

New ==
    /\ cs = NoClient
    /\ op = "init"
    /\ \E a \in NewArgs :
          LET r == new(a.chain_id, a.trust_level, a.trusting_period,
                       a.unbonding_period, a.max_clock_drift, a.latest_height,
                       a.proof_specs, a.upgrade_path)
          IN /\ cs' = IF r.ok THEN r.val ELSE cs
             /\ op' = "new"
             /\ arg' = a
             /\ res' = Outcome(r)

(* ------------------------ ClientState::with_header --------------------- *)

\* with_header rebuilding the record without carrying the freeze marker over
with_header_drops_freeze(self, h) ==
    [self EXCEPT !.latest_height =
                    with_revision_height(self.latest_height, h.height),
                 !.frozen_height = None]

\* with_header taking the whole height, revision included, from the header
with_header_header_revision(self, h) ==
    [self EXCEPT !.latest_height = Height(h.revision, h.height)]

\* with_header rebuilding the record with a default clock drift
with_header_resets_drift(self, h) ==
    [self EXCEPT !.latest_height =
                    with_revision_height(self.latest_height, h.height),
                 !.max_clock_drift = ZERO_DURATION]

with_header(self, h) ==
    [self EXCEPT !.latest_height =
        with_revision_height(self.latest_height, h.height)]

WithHeader ==
    /\ Live
    /\ \E h \in Headers :
          /\ cs' = with_header(cs, h)
          /\ op' = "with_header"
          /\ arg' = h
          /\ res' = OkRes

(* --------------------- ClientState::with_frozen_height ----------------- *)

\* with_frozen_height taking the zero height as "unfreeze"
with_frozen_height_unfreezes(self, h) ==
    IF h = HeightZero
    THEN Ok([self EXCEPT !.frozen_height = None])
    ELSE Ok([self EXCEPT !.frozen_height = Some(h)])

with_frozen_height(self, h) ==
    IF h = HeightZero
    THEN Err("Validation", "frozen height must be greater than zero")
    ELSE Ok([self EXCEPT !.frozen_height = Some(h)])

WithFrozenHeight ==
    /\ Live
    /\ \E h \in Heights :
          LET r == with_frozen_height(cs, h)
          IN /\ cs' = IF r.ok THEN r.val ELSE cs
             /\ op' = "with_frozen_height"
             /\ arg' = h
             /\ res' = Outcome(r)

(* ----------------------- ClientState::upgrade / reset ------------------ *)

\* reset leaving the freeze marker in place
reset_keeps_freeze(self) ==
    [self EXCEPT !.trusting_period = ZERO_DURATION,
                 !.trust_level = TrustThresholdZERO,
                 !.max_clock_drift = ZERO_DURATION]

reset(self) ==
    [self EXCEPT !.trusting_period = ZERO_DURATION,
                 !.trust_level = TrustThresholdZERO,
                 !.frozen_height = None,
                 !.max_clock_drift = ZERO_DURATION]

\* upgrade that also clears the proof specs
upgrade_clears_proof_specs(self, upgrade_height, upgrade_options, chain_id) ==
    [reset(self) EXCEPT !.latest_height = upgrade_height,
                        !.unbonding_period = upgrade_options.unbonding_period,
                        !.chain_id = chain_id,
                        !.proof_specs = <<>>]

upgrade(self, upgrade_height, upgrade_options, chain_id) ==
    [reset(self) EXCEPT !.latest_height = upgrade_height,
                        !.unbonding_period = upgrade_options.unbonding_period,
                        !.chain_id = chain_id]

UpgradeArgs ==
    [upgrade_height : Heights,
     upgrade_options : [unbonding_period : Durations],
     chain_id : ChainIds]

Upgrade ==
    /\ Live
    /\ \E a \in UpgradeArgs :
          /\ cs' = upgrade(cs, a.upgrade_height, a.upgrade_options, a.chain_id)
          /\ op' = "upgrade"
          /\ arg' = a
          /\ res' = OkRes

(* ---------------------- ClientState::verify_height --------------------- *)

\* verify_height with the freeze comparison strict (< for <=)
verify_height_strict_freeze(self, height) ==
    IF HeightLT(self.latest_height, height)
    THEN Err("InsufficientHeight", "")
    ELSE IF self.frozen_height.some /\ HeightLT(self.frozen_height.val, height)
    THEN Err("ClientFrozen", "")
    ELSE Ok(NoArg)

\* verify_height looking at the freeze marker before the latest height
verify_height_freeze_first(self, height) ==
    IF self.frozen_height.some /\ HeightLE(self.frozen_height.val, height)
    THEN Err("ClientFrozen", "")
    ELSE IF HeightLT(self.latest_height, height)
    THEN Err("InsufficientHeight", "")
    ELSE Ok(NoArg)

verify_height(self, height) ==
    IF HeightLT(self.latest_height, height)
    THEN Err("InsufficientHeight", "")
    ELSE IF self.frozen_height.some /\ HeightLE(self.frozen_height.val, height)
    THEN Err("ClientFrozen", "")
    ELSE Ok(NoArg)

VerifyHeight ==
    /\ Live
    /\ \E h \in Heights :
          /\ op' = "verify_height"
          /\ arg' = h
          /\ res' = Outcome(verify_height(cs, h))
          /\ UNCHANGED cs

(* ------------------- ClientState::verify_delay_passed ------------------ *)

\* ibc::timestamp::Timestamp, counted in whole units from 0 to MaxTime, the
\* last representable instant
Timestamps == 0..MaxTime

\* Timestamp + Duration: fails when the sum is not a representable Timestamp
TimestampAdd(t, d) ==
    IF t + d > MaxTime THEN Err("TimestampOverflow", "") ELSE Ok(t + d)

\* Timestamp::after
after(t, other) == t > other

\* verify_delay_passed requiring the time to be strictly after the earliest
verify_delay_passed_strict_time(current_time, current_height, processed_time, processed_height, delay_period_time, delay_period_blocks) ==
    LET earliest_time == TimestampAdd(processed_time, delay_period_time)
        earliest_height == HeightAdd(processed_height, delay_period_blocks)
    IN IF ~earliest_time.ok
       THEN earliest_time
       ELSE IF ~after(current_time, earliest_time.val)
       THEN Err("NotEnoughTimeElapsed", "")
       ELSE IF HeightLT(current_height, earliest_height)
       THEN Err("NotEnoughBlocksElapsed", "")
       ELSE Ok(NoArg)

\* verify_delay_passed reporting the block error from the time branch
verify_delay_passed_wrong_error(current_time, current_height, processed_time, processed_height, delay_period_time, delay_period_blocks) ==
    LET earliest_time == TimestampAdd(processed_time, delay_period_time)
        earliest_height == HeightAdd(processed_height, delay_period_blocks)
    IN IF ~earliest_time.ok
       THEN earliest_time
       ELSE IF ~(current_time = earliest_time.val
                 \/ after(current_time, earliest_time.val))
       THEN Err("NotEnoughBlocksElapsed", "")
       ELSE IF HeightLT(current_height, earliest_height)
       THEN Err("NotEnoughBlocksElapsed", "")
       ELSE Ok(NoArg)

verify_delay_passed(current_time, current_height, processed_time, processed_height, delay_period_time, delay_period_blocks) ==
    LET earliest_time == TimestampAdd(processed_time, delay_period_time)
        earliest_height == HeightAdd(processed_height, delay_period_blocks)
    IN IF ~earliest_time.ok
       THEN earliest_time
       ELSE IF ~(current_time = earliest_time.val
                 \/ after(current_time, earliest_time.val))
       THEN Err("NotEnoughTimeElapsed", "")
       ELSE IF HeightLT(current_height, earliest_height)
       THEN Err("NotEnoughBlocksElapsed", "")
       ELSE Ok(NoArg)

DelayArgs ==
    [current_time : Timestamps, current_height : Heights,
     processed_time : Timestamps, processed_height : Heights,
     delay_period_time : 0..MaxDelayTime,
     delay_period_blocks : 0..MaxDelayBlocks]

\* an associated function: it reads no client state
VerifyDelayPassed ==
    /\ op = "init"
    /\ \E a \in DelayArgs :
          /\ op' = "verify_delay_passed"
          /\ arg' = a
          /\ res' = Outcome(verify_delay_passed(
                        a.current_time, a.current_height, a.processed_time,
                        a.processed_height, a.delay_period_time,
                        a.delay_period_blocks))
          /\ UNCHANGED cs

(* ------------------------- ClientState::expired ------------------------ *)

\* expired counting the end of the trusting period as expired (>= for >)
expired_at_period_end(self, elapsed) == elapsed >= self.trusting_period

expired(self, elapsed) == elapsed > self.trusting_period

\* a bool returned by a query, as left in res
BoolRes(b) == [kind |-> "Ok", detail |-> IF b THEN "true" ELSE "false"]

Expired ==
    /\ Live
    /\ \E elapsed \in Durations :
          /\ op' = "expired"
          /\ arg' = [elapsed |-> elapsed]
          /\ res' = BoolRes(expired(cs, elapsed))
          /\ UNCHANGED cs

(* ------------------ RawClientState <-> ClientState --------------------- *)

\* ibc_proto Height on the wire
RawHeight(rn, rh) == [revision_number |-> rn, revision_height |-> rh]

RawHeights == [revision_number : 0..MaxRev, revision_height : 0..MaxHeight]

\* From<RawHeight> for Height and back
HeightFromRaw(raw_height) ==
    Height(raw_height.revision_number, raw_height.revision_height)

HeightIntoRaw(h) == RawHeight(h.revision_number, h.revision_height)

\* protobuf Duration on the wire: signed seconds
RawDuration(d) == [seconds |-> d]

\* From<core Duration> for the protobuf Duration
DurationIntoRaw(d) == RawDuration(d)

\* TryFrom<protobuf Duration> for core Duration: a negative one is refused
DurationTryFromRaw(raw_duration) ==
    IF raw_duration.seconds < 0
    THEN Err("NegativeDuration", "")
    ELSE Ok(raw_duration.seconds)

\* protobuf Fraction on the wire
Fraction(n, d) == [numerator |-> n, denominator |-> d]

\* From<TrustThreshold> for Fraction
TrustThresholdIntoRaw(t) == Fraction(t.numerator, t.denominator)

\* TryFrom<Fraction> for TrustThreshold: the fraction must lie in [0, 1)
TrustThresholdTryFromRaw(f) ==
    IF \/ f.numerator > f.denominator
       \/ (f.denominator = 0 /\ f.numerator # 0)
       \/ (f.numerator = f.denominator /\ f.numerator # 0)
    THEN Err("InvalidTrustThreshold", "")
    ELSE Ok([numerator |-> f.numerator, denominator |-> f.denominator])

\* the frozen_height closure of try_from, keeping a zero height as Some
frozen_from_raw_keeps_zero(raw_frozen) ==
    IF raw_frozen.some THEN Some(HeightFromRaw(raw_frozen.val)) ELSE None

\* raw.frozen_height.and_then(|raw_height| ...): zero height means not frozen
frozen_from_raw(raw_frozen) ==
    IF ~raw_frozen.some
    THEN None
    ELSE LET height == HeightFromRaw(raw_frozen.val)
         IN IF height = HeightZero THEN None ELSE Some(height)

\* try_from reading the trusting period from the unbonding-period field
try_from_swaps_periods(raw) ==
    IF ~raw.trust_level.some
    THEN Err("MissingTrustingPeriod", "")
    ELSE LET frozen_height == frozen_from_raw(raw.frozen_height)
             trust_level == TrustThresholdTryFromRaw(raw.trust_level.val)
         IN IF ~trust_level.ok
            THEN Err("InvalidTrustThreshold", "")
            ELSE IF ~raw.trusting_period.some
            THEN Err("MissingTrustingPeriod", "")
            ELSE IF ~DurationTryFromRaw(raw.trusting_period.val).ok
            THEN Err("NegativeTrustingPeriod", "")
            ELSE IF ~raw.unbonding_period.some
            THEN Err("MissingUnbondingPeriod", "")
            ELSE IF ~DurationTryFromRaw(raw.unbonding_period.val).ok
            THEN Err("NegativeUnbondingPeriod", "")
            ELSE IF ~raw.max_clock_drift.some
            THEN Err("MissingMaxClockDrift", "")
            ELSE IF ~DurationTryFromRaw(raw.max_clock_drift.val).ok
            THEN Err("NegativeMaxClockDrift", "")
            ELSE IF ~raw.latest_height.some
            THEN Err("MissingLatestHeight", "")
            ELSE Ok([chain_id |-> raw.chain_id,
                     trust_level |-> trust_level.val,
                     trusting_period |->
                        DurationTryFromRaw(raw.unbonding_period.val).val,
                     unbonding_period |->
                        DurationTryFromRaw(raw.unbonding_period.val).val,
                     max_clock_drift |->
                        DurationTryFromRaw(raw.max_clock_drift.val).val,
                     latest_height |-> HeightFromRaw(raw.latest_height.val),
                     proof_specs |-> raw.proof_specs,
                     upgrade_path |-> raw.upgrade_path,
                     frozen_height |-> frozen_height])

\* TryFrom<RawClientState> for ClientState
\* a decoder that applies the trusting-period check of new
try_from_checks_trusting_period(raw) ==
    IF ~raw.trust_level.some
    THEN Err("MissingTrustingPeriod", "")
    ELSE LET frozen_height == frozen_from_raw(raw.frozen_height)
             trust_level == TrustThresholdTryFromRaw(raw.trust_level.val)
         IN IF ~trust_level.ok
            THEN Err("InvalidTrustThreshold", "")
            ELSE IF ~raw.trusting_period.some
            THEN Err("MissingTrustingPeriod", "")
            ELSE IF ~DurationTryFromRaw(raw.trusting_period.val).ok
            THEN Err("NegativeTrustingPeriod", "")
            ELSE IF ~raw.unbonding_period.some
            THEN Err("MissingUnbondingPeriod", "")
            ELSE IF ~DurationTryFromRaw(raw.unbonding_period.val).ok
            THEN Err("NegativeUnbondingPeriod", "")
            ELSE IF ~raw.max_clock_drift.some
            THEN Err("MissingMaxClockDrift", "")
            ELSE IF ~DurationTryFromRaw(raw.max_clock_drift.val).ok
            THEN Err("NegativeMaxClockDrift", "")
            ELSE IF ~raw.latest_height.some
            THEN Err("MissingLatestHeight", "")
            ELSE IF DurationTryFromRaw(raw.trusting_period.val).val <= ZERO_DURATION
            THEN Err("InvalidTrustingPeriod", "")
            ELSE Ok([chain_id |-> raw.chain_id,
                     trust_level |-> trust_level.val,
                     trusting_period |->
                        DurationTryFromRaw(raw.trusting_period.val).val,
                     unbonding_period |->
                        DurationTryFromRaw(raw.unbonding_period.val).val,
                     max_clock_drift |->
                        DurationTryFromRaw(raw.max_clock_drift.val).val,
                     latest_height |-> HeightFromRaw(raw.latest_height.val),
                     proof_specs |-> raw.proof_specs,
                     upgrade_path |-> raw.upgrade_path,
                     frozen_height |-> frozen_height])

try_from(raw) ==
    IF ~raw.trust_level.some
    THEN Err("MissingTrustingPeriod", "")
    ELSE LET frozen_height == frozen_from_raw(raw.frozen_height)
             trust_level == TrustThresholdTryFromRaw(raw.trust_level.val)
         IN IF ~trust_level.ok
            THEN Err("InvalidTrustThreshold", "")
            ELSE IF ~raw.trusting_period.some
            THEN Err("MissingTrustingPeriod", "")
            ELSE IF ~DurationTryFromRaw(raw.trusting_period.val).ok
            THEN Err("NegativeTrustingPeriod", "")
            ELSE IF ~raw.unbonding_period.some
            THEN Err("MissingUnbondingPeriod", "")
            ELSE IF ~DurationTryFromRaw(raw.unbonding_period.val).ok
            THEN Err("NegativeUnbondingPeriod", "")
            ELSE IF ~raw.max_clock_drift.some
            THEN Err("MissingMaxClockDrift", "")
            ELSE IF ~DurationTryFromRaw(raw.max_clock_drift.val).ok
            THEN Err("NegativeMaxClockDrift", "")
            ELSE IF ~raw.latest_height.some
            THEN Err("MissingLatestHeight", "")
            ELSE Ok([chain_id |-> raw.chain_id,
                     trust_level |-> trust_level.val,
                     trusting_period |->
                        DurationTryFromRaw(raw.trusting_period.val).val,
                     unbonding_period |->
                        DurationTryFromRaw(raw.unbonding_period.val).val,
                     max_clock_drift |->
                        DurationTryFromRaw(raw.max_clock_drift.val).val,
                     latest_height |-> HeightFromRaw(raw.latest_height.val),
                     proof_specs |-> raw.proof_specs,
                     upgrade_path |-> raw.upgrade_path,
                     frozen_height |-> frozen_height])

\* the encoder leaving frozen_height unset for a client that is not frozen
from_omits_unfrozen(value) ==
    [chain_id |-> value.chain_id,
     trust_level |-> Some(TrustThresholdIntoRaw(value.trust_level)),
     trusting_period |-> Some(DurationIntoRaw(value.trusting_period)),
     unbonding_period |-> Some(DurationIntoRaw(value.unbonding_period)),
     max_clock_drift |-> Some(DurationIntoRaw(value.max_clock_drift)),
     frozen_height |->
        IF value.frozen_height.some
        THEN Some(HeightIntoRaw(value.frozen_height.val))
        ELSE None,
     latest_height |-> Some(HeightIntoRaw(value.latest_height)),
     proof_specs |-> value.proof_specs,
     upgrade_path |-> value.upgrade_path]

\* From<ClientState> for RawClientState
from(value) ==
    [chain_id |-> value.chain_id,
     trust_level |-> Some(TrustThresholdIntoRaw(value.trust_level)),
     trusting_period |-> Some(DurationIntoRaw(value.trusting_period)),
     unbonding_period |-> Some(DurationIntoRaw(value.unbonding_period)),
     max_clock_drift |-> Some(DurationIntoRaw(value.max_clock_drift)),
     frozen_height |->
        Some(HeightIntoRaw(IF value.frozen_height.some
                           THEN value.frozen_height.val
                           ELSE HeightZero)),
     latest_height |-> Some(HeightIntoRaw(value.latest_height)),
     proof_specs |-> value.proof_specs,
     upgrade_path |-> value.upgrade_path]

\* Protobuf<RawClientState>: the stored state is written out and read back
EncodeDecode ==
    /\ Live
    /\ LET r == try_from(from(cs))
       IN /\ cs' = IF r.ok THEN r.val ELSE cs
          /\ op' = "encode_decode"
          /\ arg' = NoArg
          /\ res' = Outcome(r)

Optional(S) == {None} \cup {Some(v) : v \in S}

RawFractions == {TrustThresholdIntoRaw(t) : t \in TrustLevels} \cup {Fraction(3, 1)}

\* the RawClientState messages a peer may send
RawClientStates ==
    [chain_id : ChainIds,
     trust_level : Optional(RawFractions),
     trusting_period : Optional({RawDuration(d) : d \in -1..MaxDur}),
     unbonding_period : Optional({RawDuration(d) : d \in -1..MaxDur}),
     max_clock_drift : Optional({RawDuration(d) : d \in -1..MaxDrift}),
     frozen_height : Optional(RawHeights),
     latest_height : Optional(RawHeights),
     proof_specs : ProofSpecsSet,
     upgrade_path : UpgradePaths]

\* decoding a received message into a fresh client state
TryFrom ==
    /\ cs = NoClient
    /\ op = "init"
    /\ \E raw \in RawClientStates :
          LET r == try_from(raw)
          IN /\ cs' = IF r.ok THEN r.val ELSE cs
             /\ op' = "try_from"
             /\ arg' = raw
             /\ res' = Outcome(r)

(* ---------------------- ClientState::refresh_time ---------------------- *)

\* refresh_time = 2 * trusting_period / 3; the product of a Duration and an
\* integer panics when it is past DurationMAX, the quotient is rounded down
refresh_time(self) ==
    IF 2 * self.trusting_period > DurationMAX
    THEN [kind |-> "Panic", detail |-> "overflow when multiplying duration by scalar"]
    ELSE Some((2 * self.trusting_period) \div 3)

\* construction over the whole range of representable periods
WideNewArgs ==
    [chain_id : {"chain-0"}, trust_level : TrustLevels \ {TrustThresholdZERO},
     trusting_period : 0..DurationMAX, unbonding_period : 0..DurationMAX,
     max_clock_drift : 0..MaxDrift, latest_height : Heights,
     proof_specs : ProofSpecsSet \ {<<>>}, upgrade_path : UpgradePaths]

NewWide ==
    /\ cs = NoClient
    /\ op = "init"
    /\ \E a \in WideNewArgs :
          LET r == new(a.chain_id, a.trust_level, a.trusting_period,
                       a.unbonding_period, a.max_clock_drift, a.latest_height,
                       a.proof_specs, a.upgrade_path)
          IN /\ cs' = IF r.ok THEN r.val ELSE cs
             /\ op' = "new"
             /\ arg' = a
             /\ res' = Outcome(r)

RefreshTime ==
    /\ Live
    /\ op # "refresh_time"
    /\ op' = "refresh_time"
    /\ arg' = NoArg
    /\ res' = refresh_time(cs)
    /\ UNCHANGED cs

(* ------------------- rpc events: filter_map_pallet_event ---------------- *)

Channels == {"channel-0", "channel-1"}

SequenceNumbers == 1..MaxSeq

\* ibc Packet as far as the filter reads and writes it
Packets ==
    [sequence : SequenceNumbers, src_channel : Channels, dst_channel : Channels,
     src_port : {"transfer"}, dst_port : {"transfer"}, data : {"event-stub"}]

\* ibc_primitives::PacketInfo entries held by the packet store
InfoA ==
    [sequence |-> 1, src_channel |-> "channel-0", dst_channel |-> "channel-1",
     src_port |-> "transfer", dst_port |-> "transfer", data |-> "body-a",
     ack |-> Some("ack-a")]

InfoB ==
    [sequence |-> 1, src_channel |-> "channel-0", dst_channel |-> "channel-1",
     src_port |-> "transfer", dst_port |-> "transfer", data |-> "body-b",
     ack |-> None]

\* From<PacketInfo> for Packet
PacketFromInfo(info) ==
    [sequence |-> info.sequence, src_channel |-> info.src_channel,
     dst_channel |-> info.dst_channel, src_port |-> info.src_port,
     dst_port |-> info.dst_port, data |-> info.data]

\* answers of query_send_packet_info / query_recv_packet_info:
\* Result<Option<Vec<PacketInfo>>, ApiError>
QueryErr == [ok |-> FALSE, err |-> [kind |-> "ApiError", detail |-> ""]]

NoPacketAnswers == {QueryErr, Ok(None), Ok(Some(<<>>))}

QueryAnswers ==
    NoPacketAnswers \cup
    {Ok(Some(<<InfoA>>)), Ok(Some(<<InfoB>>)),
     Ok(Some(<<InfoA, InfoB>>)), Ok(Some(<<InfoB, InfoA>>))}

PacketKeys == [channel : Channels, port : {"transfer"}, sequence : SequenceNumbers]

\* the runtime api at a block: what the two queries answer at one key of the
\* store, and what they answer at every other key
Apis ==
    [key : PacketKeys, send : QueryAnswers, recv : QueryAnswers,
     other : NoPacketAnswers]

query_send_packet_info(api, channel_id, port_id, sequence) ==
    IF api.key = [channel |-> channel_id, port |-> port_id, sequence |-> sequence]
    THEN api.send
    ELSE api.other

query_recv_packet_info(api, channel_id, port_id, sequence) ==
    IF api.key = [channel |-> channel_id, port |-> port_id, sequence |-> sequence]
    THEN api.recv
    ELSE api.other

PacketEventKinds ==
    {"SendPacket", "ReceivePacket", "WriteAcknowledgement",
     "AcknowledgePacket", "TimeoutPacket", "TimeoutOnClosePacket"}

DroppedEventKinds == {"NewBlock", "AppModule", "Empty", "ChainError"}

OtherEventKinds == {"CreateClient", "OpenInitChannel"}

\* pallet events: whether the conversion to the ibc event succeeds, and the
\* ibc event it gives
PalletEvents ==
    [converts : BOOLEAN,
     kind : PacketEventKinds \cup DroppedEventKinds \cup OtherEventKinds,
     packet : Packets, ack : {"event-ack"}]

RawEvent(ev) == [kind |-> ev.kind, packet |-> ev.packet, ack |-> ev.ack]

\* the lookup taking the last stored entry instead of the first
first_packet_info_takes_last(answer) ==
    IF ~answer.ok THEN None
    ELSE IF ~answer.val.some THEN None
    ELSE IF Len(answer.val.val) = 0 THEN None
    ELSE Some(answer.val.val[Len(answer.val.val)])

\* .ok().flatten()? followed by packets.get(0)?: the first stored entry
first_packet_info(answer) ==
    IF ~answer.ok THEN None
    ELSE IF ~answer.val.some THEN None
    ELSE IF Len(answer.val.val) = 0 THEN None
    ELSE Some(answer.val.val[1])

filter_map_pallet_event(api, ev) ==
    IF ~ev.converts THEN None
    ELSE LET event == RawEvent(ev)
             sent == first_packet_info(query_send_packet_info(
                        api, event.packet.src_channel, event.packet.src_port,
                        event.packet.sequence))
             received == first_packet_info(query_recv_packet_info(
                        api, event.packet.dst_channel, event.packet.dst_port,
                        event.packet.sequence))
         IN IF event.kind \in {"SendPacket", "AcknowledgePacket",
                               "TimeoutPacket", "TimeoutOnClosePacket"}
            THEN IF ~sent.some THEN None
                 ELSE Some([event EXCEPT !.packet = PacketFromInfo(sent.val)])
            ELSE IF event.kind = "ReceivePacket"
            THEN IF ~received.some THEN None
                 ELSE Some([event EXCEPT
                               !.packet = PacketFromInfo(received.val)])
            ELSE IF event.kind = "WriteAcknowledgement"
            THEN IF ~received.some THEN None
                 ELSE IF ~received.val.ack.some THEN None
                 ELSE Some([event EXCEPT
                               !.ack = received.val.ack.val,
                               !.packet = PacketFromInfo(received.val)])
            ELSE IF event.kind \in DroppedEventKinds
            THEN None
            ELSE Some(event)

FilterMapPalletEvent ==
    /\ op = "init"
    /\ \E api \in Apis, ev \in PalletEvents :
          /\ op' = "filter_map_pallet_event"
          /\ arg' = [api |-> api, ev |-> ev]
          /\ res' = filter_map_pallet_event(api, ev)
          /\ UNCHANGED cs

Init ==
    /\ cs = NoClient
    /\ op = "init"
    /\ arg = NoArg
    /\ res = OkRes

Next ==
    \/ New
    \/ WithHeader
    \/ WithFrozenHeight
    \/ Upgrade
    \/ VerifyHeight
    \/ Expired
    \/ EncodeDecode

Spec == Init /\ [][Next]_vars

\* the delay guard on its own, over all its inputs
NextDelay == VerifyDelayPassed

SpecDelay == Init /\ [][NextDelay]_vars

\* the decoder on its own, over all the messages it may be given
NextDecode == TryFrom

SpecDecode == Init /\ [][NextDecode]_vars

\* refresh_time over the whole range of periods, before and after an upgrade
NextRefresh ==
    \/ NewWide
    \/ Upgrade
    \/ RefreshTime

SpecRefresh == Init /\ [][NextRefresh]_vars

\* the event filter on its own, over the events and the store answers
NextEvents == FilterMapPalletEvent

SpecEvents == Init /\ [][NextEvents]_vars

(* ------------------------------ properties ----------------------------- *)

\* the construction conditions of section 4.1, on the arguments of new
ValidNewArgs(a) ==
    /\ a.trusting_period > 0
    /\ a.unbonding_period > 0
    /\ a.trusting_period < a.unbonding_period
    /\ (a.latest_height.revision_number > 0
        \/ a.latest_height.revision_height > 0)
    /\ a.trust_level # TrustThresholdZERO
    /\ a.proof_specs # <<>>

\* C1: new succeeds exactly when trusting_period > 0, unbonding_period > 0,
\* trusting_period < unbonding_period, latest_height > zero, trust_level is
\* not ZERO and proof_specs is non-empty; on success the state carries the
\* arguments with frozen_height = None, on failure no state is constructed.
C1_NewSucceedsIffValid ==
    op = "new" =>
        /\ (res = OkRes) <=> ValidNewArgs(arg)
        /\ (res = OkRes) =>
              cs = [chain_id |-> arg.chain_id,
                    trust_level |-> arg.trust_level,
                    trusting_period |-> arg.trusting_period,
                    unbonding_period |-> arg.unbonding_period,
                    max_clock_drift |-> arg.max_clock_drift,
                    latest_height |-> arg.latest_height,
                    proof_specs |-> arg.proof_specs,
                    upgrade_path |-> arg.upgrade_path,
                    frozen_height |-> None]
        /\ (res # OkRes) => cs = NoClient

C1_Witness ==
    /\ op = "new"
    /\ res = OkRes
    /\ Live
    /\ cs.trusting_period + 1 = cs.unbonding_period

\* C2: verify_height(h) succeeds exactly when h <= latest_height and the
\* client is not frozen or h < frozen_height; h = frozen_height fails.
C2_VerifyHeightIff ==
    op = "verify_height" =>
        ((res = OkRes) <=>
            /\ ~HeightLT(cs.latest_height, arg)
            /\ (cs.frozen_height = None
                \/ (cs.frozen_height # Some(arg)
                    /\ ~HeightLT(cs.frozen_height.val, arg))))

C2_Witness ==
    /\ op = "verify_height"
    /\ cs.frozen_height = Some(arg)
    /\ HeightLE(arg, cs.latest_height)
    /\ res.kind = "ClientFrozen"

\* C3: once the client is frozen at h, verify_height(x) fails for every
\* x >= h after any further with_header or with_frozen_height call (stated
\* for one further call: a frozen client stays untrusted at or above the
\* height it was frozen at).
C3_FrozenStaysUntrusted ==
    [][(/\ Live
        /\ cs.frozen_height.some
        /\ op' \in {"with_header", "with_frozen_height"})
       => \A x \in Heights :
             HeightLE(cs.frozen_height.val, x) => ~verify_height(cs', x).ok]_vars

HeightMax(a, b) == IF HeightLT(a, b) THEN b ELSE a

\* C4: with_header never regresses the height: latest_height afterwards is
\* max(latest_height before, header height).
C4_HeaderNeverRegresses ==
    [][op' = "with_header"
       => cs'.latest_height =
            HeightMax(cs.latest_height,
                      Height(cs.latest_height.revision_number, arg'.height))]_vars

\* the two bounds of the delay guard, on the arguments of verify_delay_passed
TimeBoundMet(a) == a.current_time >= a.processed_time + a.delay_period_time

BlockBoundMet(a) ==
    \/ a.current_height.revision_number > a.processed_height.revision_number
    \/ /\ a.current_height.revision_number = a.processed_height.revision_number
       /\ a.current_height.revision_height >=
             a.processed_height.revision_height + a.delay_period_blocks

\* C5: verify_delay_passed succeeds exactly when current_time >=
\* processed_time + delay_period_time and current_height >= processed_height
\* + delay_period_blocks (lexicographic, delay added to the revision height).
C5_DelayPassedIff ==
    op = "verify_delay_passed" =>
        ((res = OkRes) <=> (TimeBoundMet(arg) /\ BlockBoundMet(arg)))

C5_Witness ==
    /\ op = "verify_delay_passed"
    /\ res = OkRes
    /\ arg.delay_period_time > 0
    /\ arg.delay_period_blocks > 0
    /\ arg.current_time = arg.processed_time + arg.delay_period_time
    /\ arg.current_height =
          HeightAdd(arg.processed_height, arg.delay_period_blocks)

\* C6 as stated: when exactly one bound is unmet the error names that bound:
\* time alone gives not-enough-time-elapsed, blocks alone gives
\* not-enough-blocks-elapsed.
C6_ErrorNamesUnmetBound ==
    op = "verify_delay_passed" =>
        /\ (~TimeBoundMet(arg) /\ BlockBoundMet(arg))
              => res.kind = "NotEnoughTimeElapsed"
        /\ (TimeBoundMet(arg) /\ ~BlockBoundMet(arg))
              => res.kind = "NotEnoughBlocksElapsed"

\* C6 amended: as C6, except that when processed_time + delay_period_time is
\* not a representable timestamp the call fails with the timestamp-overflow
\* error, whatever the block bound; the block error is never given for an
\* unmet time bound, nor the time error for an unmet block bound.
C6_ErrorNamesUnmetBoundOrOverflow ==
    op = "verify_delay_passed" =>
        /\ (~TimeBoundMet(arg) /\ BlockBoundMet(arg))
              => res.kind =
                    IF arg.processed_time + arg.delay_period_time > MaxTime
                    THEN "TimestampOverflow"
                    ELSE "NotEnoughTimeElapsed"
        /\ (TimeBoundMet(arg) /\ ~BlockBoundMet(arg))
              => res.kind = "NotEnoughBlocksElapsed"

C6_Witness ==
    /\ op = "verify_delay_passed"
    /\ ~TimeBoundMet(arg)
    /\ BlockBoundMet(arg)
    /\ res.kind = "NotEnoughTimeElapsed"

\* C7: with_frozen_height(zero) fails with a validation error and leaves the
\* state as it was; with_frozen_height(h), h # zero, succeeds with
\* frozen_height = Some(h), on a healthy or a frozen client.
C7_FreezeSetsExactly ==
    [][op' = "with_frozen_height"
       => IF arg' = HeightZero
          THEN res'.kind = "Validation" /\ cs' = cs
          ELSE res' = OkRes /\ cs'.frozen_height = Some(arg')]_vars

C7_Witness ==
    /\ op = "with_frozen_height"
    /\ res = OkRes
    /\ cs.frozen_height = Some(arg)

\* C8: no in-place unfreeze: from a frozen state, frozen_height becomes None
\* only by upgrade; with_header and with_frozen_height (succeeding or
\* failing) leave it set.
C8_NoUnfreeze ==
    [][(Live /\ cs.frozen_height.some /\ ~cs'.frozen_height.some)
       => op' = "upgrade"]_vars

C8_Witness ==
    /\ op = "with_header"
    /\ cs.frozen_height.some

\* the trust-parameter invariants of section 3
TrustInv(c) ==
    /\ c.trusting_period > 0
    /\ c.unbonding_period > 0
    /\ c.trusting_period < c.unbonding_period
    /\ c.trust_level # TrustThresholdZERO

\* C9 as stated: the trust-parameter invariants hold in every state reached
\* from a successful new by with_header, with_frozen_height and upgrade.
C9_TrustInvAlways == Live => TrustInv(cs)

\* C9 amended: the trust-parameter invariants hold after a successful new
\* and are preserved by with_header and with_frozen_height; upgrade resets
\* trusting_period to zero and trust_level to ZERO, so they fail after it.
C9_TrustInvUntilUpgrade ==
    /\ [](op = "new" /\ res = OkRes => TrustInv(cs))
    /\ [][(Live /\ TrustInv(cs) /\ op' # "upgrade") => TrustInv(cs')]_vars
    /\ [](op = "upgrade" =>
             cs.trusting_period = 0 /\ cs.trust_level = TrustThresholdZERO)

C9_Witness ==
    /\ op = "with_header"
    /\ cs.frozen_height.some
    /\ TrustInv(cs)

\* C10: latest_height > zero in every state reached from a successful new
\* by with_header, with_frozen_height and upgrade.
C10_LatestHeightPositive == Live => HeightLT(HeightZero, cs.latest_height)

\* C11: whenever frozen_height is Some(h), h is not the zero height, in every
\* state reached from a successful new by with_header, with_frozen_height,
\* upgrade and encode/decode.
C11_FrozenHeightNonZero ==
    (Live /\ cs.frozen_height.some) => cs.frozen_height.val # HeightZero

C11_Witness ==
    /\ op = "encode_decode"
    /\ res = OkRes
    /\ cs.frozen_height.some

\* C12: upgrade, from a healthy or a frozen state, yields frozen_height =
\* None, trust_level = ZERO, trusting_period = 0, max_clock_drift = 0 and
\* latest_height, unbonding_period, chain_id as given.
C12_UpgradeResult ==
    op = "upgrade" =>
        /\ cs.frozen_height = None
        /\ cs.trust_level = TrustThresholdZERO
        /\ cs.trusting_period = 0
        /\ cs.max_clock_drift = 0
        /\ cs.latest_height = arg.upgrade_height
        /\ cs.unbonding_period = arg.upgrade_options.unbonding_period
        /\ cs.chain_id = arg.chain_id

C12_Witness ==
    /\ op = "upgrade"
    /\ arg.upgrade_options.unbonding_period > 0
    /\ arg.upgrade_height # HeightZero
    /\ cs.frozen_height = None

\* the five kinds of invalid input of section 4.1, each violated on its own;
\* 0 for any other argument tuple
InvalidClass(a) ==
    LET periods == a.trusting_period > 0 /\ a.unbonding_period > 0
                   /\ a.trusting_period < a.unbonding_period
        height == a.latest_height # HeightZero
        trust == a.trust_level # TrustThresholdZERO
        specs == a.proof_specs # <<>>
    IN IF (a.trusting_period <= 0 \/ a.unbonding_period <= 0)
          /\ height /\ trust /\ specs THEN 1
       ELSE IF ~periods /\ height /\ trust /\ specs THEN 2
       ELSE IF periods /\ ~height /\ trust /\ specs THEN 3
       ELSE IF periods /\ height /\ ~trust /\ specs THEN 4
       ELSE IF periods /\ height /\ trust /\ ~specs THEN 5
       ELSE 0

\* the errors new gives for the inputs of each class
ErrorsByClass ==
    [c \in 1..5 |->
        {Outcome(new(b.chain_id, b.trust_level, b.trusting_period,
                     b.unbonding_period, b.max_clock_drift, b.latest_height,
                     b.proof_specs, b.upgrade_path)) :
            b \in {x \in NewArgs : InvalidClass(x) = c}}]

\* C13 as stated: the five kinds of invalid input are pairwise
\* distinguishable by the error kind new returns.
C13_DistinctErrorKinds ==
    (op = "new" /\ InvalidClass(arg) # 0) =>
        \A d \in 1..5 \ {InvalidClass(arg)} :
            res.kind \notin {e.kind : e \in ErrorsByClass[d]}

\* C13 amended: new uses three error kinds (invalid-trusting-period for a
\* non-positive trusting period and for trusting >= unbonding period,
\* invalid-unbonding-period for a non-positive unbonding period, validation
\* for the height, trust-level and proof-specs checks); the five kinds of
\* invalid input are pairwise distinguishable by kind and message together.
C13_ThreeKindsDistinctMessages ==
    (op = "new" /\ res # OkRes) =>
        /\ res.kind =
              IF arg.trusting_period <= 0 THEN "InvalidTrustingPeriod"
              ELSE IF arg.unbonding_period <= 0 THEN "InvalidUnbondingPeriod"
              ELSE IF arg.trusting_period >= arg.unbonding_period
              THEN "InvalidTrustingPeriod"
              ELSE "Validation"
        /\ InvalidClass(arg) # 0 =>
              \A d \in 1..5 \ {InvalidClass(arg)} : res \notin ErrorsByClass[d]

C13_Witness ==
    /\ op = "new"
    /\ InvalidClass(arg) = 4
    /\ res.kind = "Validation"

RequiredFields ==
    {"trust_level", "trusting_period", "unbonding_period", "max_clock_drift",
     "latest_height"}

MissingFields(raw) == {f \in RequiredFields : ~raw[f].some}

\* a message with every field present and well-formed
CompleteRaw ==
    [chain_id |-> "chain-0",
     trust_level |-> Some(Fraction(1, 3)),
     trusting_period |-> Some(RawDuration(1)),
     unbonding_period |-> Some(RawDuration(2)),
     max_clock_drift |-> Some(RawDuration(1)),
     frozen_height |-> Some(RawHeight(0, 0)),
     latest_height |-> Some(RawHeight(0, 1)),
     proof_specs |-> <<"iavl", "tendermint">>,
     upgrade_path |-> <<"upgrade", "upgradedIBCState">>]

\* C15: a message lacking exactly one required field is refused with an
\* error kind that differs from the one given when any other required field
\* is the one lacking.
C15_DistinctMissingField ==
    (op = "try_from" /\ Cardinality(MissingFields(arg)) = 1) =>
        \A g \in RequiredFields \ MissingFields(arg) :
            /\ res # OkRes
            /\ res.kind # Outcome(try_from([CompleteRaw EXCEPT ![g] = None])).kind

\* C16: expired(elapsed) is true exactly when elapsed > trusting_period
\* (elapsed = trusting_period is not expired) and changes no field.
C16_ExpiredIffPastPeriod ==
    [][op' = "expired"
       => /\ cs' = cs
          /\ (res' = BoolRes(TRUE)) <=> (arg'.elapsed > cs.trusting_period)
          /\ res' \in {BoolRes(TRUE), BoolRes(FALSE)}]_vars

C16_Witness ==
    /\ op = "expired"
    /\ cs.trusting_period > 0
    /\ arg.elapsed = cs.trusting_period
    /\ res = BoolRes(FALSE)

\* C17 as stated: after with_header the revision number of latest_height is
\* the one carried by the header.
C17_RevisionFromHeader ==
    [][op' = "with_header"
       => cs'.latest_height.revision_number = arg'.revision]_vars

\* C17 amended: after with_header the revision number of latest_height is
\* the one the client held before the call; only the revision height is
\* taken from the header.
C17_RevisionKept ==
    [][op' = "with_header"
       => /\ cs'.latest_height.revision_number =
                cs.latest_height.revision_number
          /\ cs'.latest_height.revision_height = arg'.height]_vars

C17_Witness ==
    /\ op = "with_header"
    /\ arg.revision # cs.latest_height.revision_number
    /\ cs.latest_height.revision_height = arg.height

\* C18: with_header leaves frozen_height, trust_level, trusting_period,
\* unbonding_period and max_clock_drift as they were; a frozen client stays
\* frozen at the same height and verify_height keeps refusing the heights at
\* or above it.
C18_HeaderFrame ==
    [][op' = "with_header"
       => /\ cs'.frozen_height = cs.frozen_height
          /\ cs'.trust_level = cs.trust_level
          /\ cs'.trusting_period = cs.trusting_period
          /\ cs'.unbonding_period = cs.unbonding_period
          /\ cs'.max_clock_drift = cs.max_clock_drift
          /\ cs.frozen_height.some =>
                \A x \in Heights :
                    HeightLE(cs.frozen_height.val, x)
                        => ~verify_height(cs', x).ok]_vars

C18_Witness ==
    /\ op = "with_header"
    /\ cs.frozen_height.some
    /\ cs.max_clock_drift > 0
    /\ HeightLT(cs.frozen_height.val, cs.latest_height)

\* C19: verify_height(h) gives InsufficientHeight whenever latest_height < h,
\* frozen or not; ClientFrozen exactly when latest_height >= h and the client
\* is frozen at some f <= h; and no other error.
C19_VerifyHeightErrors ==
    op = "verify_height" =>
        /\ HeightLT(cs.latest_height, arg) => res.kind = "InsufficientHeight"
        /\ (res.kind = "ClientFrozen") <=>
              /\ ~HeightLT(cs.latest_height, arg)
              /\ cs.frozen_height.some
              /\ HeightLE(cs.frozen_height.val, arg)
        /\ res.kind \in {"Ok", "InsufficientHeight", "ClientFrozen"}

C19_Witness ==
    /\ op = "verify_height"
    /\ HeightLT(cs.latest_height, arg)
    /\ cs.frozen_height.some
    /\ HeightLE(cs.frozen_height.val, arg)
    /\ res.kind = "InsufficientHeight"

\* C20: the decoded frozen_height is None exactly when the wire field is
\* absent or the zero height, and Some of the wire value otherwise; the
\* encoder writes the zero height for frozen_height = None.
C20_FrozenHeightWire ==
    (op = "try_from" /\ res = OkRes) =>
        /\ (cs.frozen_height = None) <=>
              (arg.frozen_height = None
               \/ arg.frozen_height = Some(RawHeight(0, 0)))
        /\ cs.frozen_height.some =>
              /\ cs.frozen_height.val.revision_number =
                    arg.frozen_height.val.revision_number
              /\ cs.frozen_height.val.revision_height =
                    arg.frozen_height.val.revision_height
        /\ cs.frozen_height = None =>
              from(cs).frozen_height = Some(RawHeight(0, 0))

C20_Witness ==
    /\ op = "try_from"
    /\ res = OkRes
    /\ arg.frozen_height = Some(RawHeight(0, 0))
    /\ cs.frozen_height = None

(* ---------------------------- C21 .. C24 ------------------------------- *)

\* the answer of the packet store to the query the event kind makes: the
\* receive store at the destination end for receive-packet and
\* write-acknowledgement, the send store at the source end otherwise
StoreAnswer(api, ev) ==
    IF ev.kind \in {"ReceivePacket", "WriteAcknowledgement"}
    THEN query_recv_packet_info(api, ev.packet.dst_channel,
                                ev.packet.dst_port, ev.packet.sequence)
    ELSE query_send_packet_info(api, ev.packet.src_channel,
                                ev.packet.src_port, ev.packet.sequence)

HasPacket(answer) ==
    IF ~answer.ok THEN FALSE
    ELSE IF ~answer.val.some THEN FALSE
    ELSE answer.val.val # <<>>

\* C21: filter_map_pallet_event returns None for every new-block,
\* application-module, empty and chain-error event whatever the packet store
\* holds, and for every packet event whose store query fails or returns no
\* packet; a packet event that is emitted carries the packet of the first
\* stored entry.
C21_DropsAndFirstEntry ==
    op = "filter_map_pallet_event" =>
        /\ arg.ev.kind \in DroppedEventKinds => res = None
        /\ (arg.ev.kind \in PacketEventKinds
            /\ ~HasPacket(StoreAnswer(arg.api, arg.ev))) => res = None
        /\ (arg.ev.kind \in PacketEventKinds /\ res # None) =>
              /\ HasPacket(StoreAnswer(arg.api, arg.ev))
              /\ res.val.packet =
                    PacketFromInfo(StoreAnswer(arg.api, arg.ev).val.val[1])

C21_Witness ==
    /\ op = "filter_map_pallet_event"
    /\ arg.ev.kind = "WriteAcknowledgement"
    /\ StoreAnswer(arg.api, arg.ev) = Ok(Some(<<InfoA, InfoB>>))
    /\ res # None
    /\ res.val.packet.data = "body-a"

WellFormedFraction(f) ==
    \/ f.numerator < f.denominator
    \/ (f.numerator = 0 /\ f.denominator = 0)

WellFormedRaw(raw) ==
    /\ raw.trust_level.some
    /\ WellFormedFraction(raw.trust_level.val)
    /\ raw.trusting_period.some
    /\ raw.trusting_period.val.seconds >= 0
    /\ raw.unbonding_period.some
    /\ raw.unbonding_period.val.seconds >= 0
    /\ raw.max_clock_drift.some
    /\ raw.max_clock_drift.val.seconds >= 0
    /\ raw.latest_height.some

\* C22: try_from succeeds for every RawClientState whose required fields are
\* present with non-negative durations and a well-formed trust threshold,
\* and gives the wire values unchecked, whether or not new would accept them.
C22_DecodeSkipsNewChecks ==
    (op = "try_from" /\ WellFormedRaw(arg)) =>
        /\ res = OkRes
        /\ Live
        /\ cs.trusting_period = arg.trusting_period.val.seconds
        /\ cs.unbonding_period = arg.unbonding_period.val.seconds
        /\ cs.latest_height = HeightFromRaw(arg.latest_height.val)
        /\ cs.proof_specs = arg.proof_specs

\* a decoded state that breaks every construction check the claim lists
C22_Witness ==
    /\ op = "try_from"
    /\ res = OkRes
    /\ Live
    /\ cs.trusting_period = ZERO_DURATION
    /\ cs.trusting_period >= cs.unbonding_period
    /\ cs.latest_height = HeightZero
    /\ cs.proof_specs = <<>>
    /\ ~new(cs.chain_id, cs.trust_level, cs.trusting_period,
            cs.unbonding_period, cs.max_clock_drift, cs.latest_height,
            cs.proof_specs, cs.upgrade_path).ok

\* C23: proof_specs and upgrade_path of a state created by new equal the
\* values passed to new (proof_specs non-empty) and no later transition
\* changes them; with_frozen_height changes no field but frozen_height.
C23_ProofSpecsAndPathFixed ==
    /\ []((op = "new" /\ Live) =>
             /\ cs.proof_specs = arg.proof_specs
             /\ cs.upgrade_path = arg.upgrade_path)
    /\ [](Live => cs.proof_specs # <<>>)
    /\ [][Live => /\ cs'.proof_specs = cs.proof_specs
                  /\ cs'.upgrade_path = cs.upgrade_path]_vars
    /\ [][op' = "with_frozen_height" =>
             [cs' EXCEPT !.frozen_height = cs.frozen_height] = cs]_vars

C23_Witness ==
    /\ op = "upgrade"
    /\ cs.trust_level = TrustThresholdZERO
    /\ cs.proof_specs = <<"iavl", "tendermint">>
    /\ cs.upgrade_path = <<"upgrade", "upgradedIBCState">>

\* C24: in every reachable state refresh_time returns Some(d) with
\* d = floor(2 * trusting_period / 3) <= trusting_period, so expired(d) is
\* false.
C24_RefreshBeforeExpiry ==
    op = "refresh_time" =>
        /\ res = Some((2 * cs.trusting_period) \div 3)
        /\ res.val <= cs.trusting_period
        /\ ~expired(cs, res.val)

====
